---- MODULE Spec2Model ----
(***************************************************************************)
(* Model of generate_bingo.py: the rule predicates, the win-condition and  *)
(* budget checks, the reject-and-retry generator (generate_single_grid)    *)
(* and the backtracking enumerator (generate_all_solutions).               *)
(*                                                                         *)
(* Colours are written in English: "Red" = 红, "Blue" = 蓝, "Black" = 黑,  *)
(* "Green" = 绿, "Yellow" = 黄, "Purple" = 紫, "White" = 白.               *)
(*                                                                         *)
(* A grid is a list of rows of cell dictionaries.  The cell dictionaries   *)
(* built by generate_all_solutions are heap objects: they live in `cells`, *)
(* and a list of rows holds REFERENCES to them (a reference is the pair    *)
(* <<i, j>> of the dictionary created for row i, column j).                *)
(***************************************************************************)
EXTENDS Integers, Sequences, FiniteSets, TLC

\* The side of the grid: every range(5) and the test 0 <= i < 5.
N == 5

\* GLOBAL_CONFIG["MAX_CHECKED"] and GLOBAL_CONFIG["MAX_SOLUTIONS"] as shipped.
MAX_CHECKED == 15
MAX_SOLUTIONS == 1000

\* Bounds of the model.
\* The first MaxFree cells (row-major) of a drawn layout take any colour; the
\* remaining cells are Black, which keeps the search tree at 2^MaxFree leaves.
MaxFree == 3
\* The same for the grids generate_single_grid builds, with SingleFree cells.
SingleFree == 1
\* The retry loop of generate_single_grid is followed for MaxTries rejections.
MaxTries == 1
\* A second, small value of MAX_SOLUTIONS, so that truncation happens.
SmallCap == 1
\* The search of the all-White layout is followed from its start to the end of
\* the subtree of the last WhiteDepth cells (the cells before them checked).
WhiteDepth == 10

COLORS == <<"Red", "Blue", "Black", "Green", "Yellow", "Purple", "White">>

Coord == 0 .. (N - 1)

ColorSet == {COLORS[k] : k \in 1 .. Len(COLORS)}

\* Values GLOBAL_CONFIG may hold when a generator is called.
BudgetChoices == {MAX_CHECKED, N * N - 1, N * N}
CapChoices == {MAX_SOLUTIONS, SmallCap}

\* Row-major index of a position.
Index(x, y) == x * N + y

\* The colour layouts random.choice may draw that the model follows: any
\* colour in the first free cells, Black in the others.
LayoutsOf(free) ==
    { [i \in Coord |-> [j \in Coord |->
          IF Index(i, j) < free THEN f[Index(i, j)] ELSE "Black"]] :
      f \in [0 .. (free - 1) -> ColorSet] }

Layouts == LayoutsOf(MaxFree)

VARIABLES
    maxChecked,     \* GLOBAL_CONFIG["MAX_CHECKED"]
    maxSolutions,   \* GLOBAL_CONFIG["MAX_SOLUTIONS"]
    generateAll,    \* GLOBAL_CONFIG["GENERATE_ALL"]
    phase,          \* "idle", "search", "done", "single", "singleDone"
    color_grid,     \* generate_all_solutions: the fixed colour layout
    cells,          \* the heap of cell dictionaries of initial_grid
    stack,          \* the call stack of backtrack, innermost frame last
    solutions,      \* generate_all_solutions: the list of appended snapshots
    returned,       \* the list generate_all_solutions returns
    single,         \* the grid generate_single_grid returns
    tries,          \* rejected candidates of generate_single_grid so far
    accepted,       \* history: the checked values of the live grid at each append
    visited,        \* history: the positions backtrack has been called on
    first_colors,   \* history: the colours of generate_single_grid's first candidate
    nb              \* a call of get_neighbors: its arguments, loop index and list

vars == <<maxChecked, maxSolutions, generateAll, phase, color_grid, cells,
          stack, solutions, returned, single, tries, accepted, visited,
          first_colors, nb>>

----------------------------------------------------------------------------
\* Utility functions

\* The 3x3 block around (x, y) in the order of the two nested loops.
Block(x, y) == [k \in 1 .. 9 |-> <<x - 1 + ((k - 1) \div 3), y - 1 + ((k - 1) % 3)>>]

\* Mutant: the upper bound of the grid test taken inclusive.
in_grid_inclusive(i, j) == 0 <= i /\ i <= N /\ 0 <= j /\ j <= N

\* Line 36: 0 <= i < 5 and 0 <= j < 5.
in_grid(i, j) == 0 <= i /\ i < N /\ 0 <= j /\ j < N

get_neighbors(x, y) ==
    SelectSeq(Block(x, y),
              LAMBDA p : /\ ~(p[1] = x /\ p[2] = y)
                         /\ in_grid(p[1], p[2]))

has_five_in_a_row(grid) ==
    \/ \E i \in Coord : \A j \in Coord : grid[i][j].checked
    \/ \E j \in Coord : \A i \in Coord : grid[i][j].checked
    \/ \A i \in Coord : grid[i][i].checked
    \/ \A i \in Coord : grid[i][N - 1 - i].checked

----------------------------------------------------------------------------
\* Rule predicates

check_red_rule(grid, x, y) ==
    LET neighbors == get_neighbors(x, y)
    IN  \E k \in 1 .. Len(neighbors) :
            /\ grid[neighbors[k][1]][neighbors[k][2]].color = "Blue"
            /\ grid[neighbors[k][1]][neighbors[k][2]].checked

check_blue_rule(grid, x, y) ==
    LET neighbors == get_neighbors(x, y)
        black_checked ==
            Cardinality({k \in 1 .. Len(neighbors) :
                /\ grid[neighbors[k][1]][neighbors[k][2]].color = "Black"
                /\ grid[neighbors[k][1]][neighbors[k][2]].checked})
    IN  black_checked <= 2

check_green_rule(grid, x, y) ==
    LET row_count == Cardinality({j \in Coord : grid[x][j].checked})
        col_count == Cardinality({i \in Coord : grid[i][y].checked})
    IN  row_count = col_count

check_yellow_rule(grid, x, y) ==
    LET diag1 == Cardinality({i \in Coord : grid[i][i].checked})
        diag2 == Cardinality({i \in Coord : grid[i][N - 1 - i].checked})
    IN  diag1 = diag2

check_purple_rule(grid, x, y) ==
    LET neighbors == get_neighbors(x, y)
        checked_count ==
            Cardinality({k \in 1 .. Len(neighbors) :
                grid[neighbors[k][1]][neighbors[k][2]].checked})
    IN  checked_count % 2 = 1

\* Mutant: the default of the lookup answers False.
check_func_default_false(color, grid, i, j) ==
    CASE color = "Red"    -> check_red_rule(grid, i, j)
      [] color = "Blue"   -> check_blue_rule(grid, i, j)
      [] color = "Green"  -> check_green_rule(grid, i, j)
      [] color = "Yellow" -> check_yellow_rule(grid, i, j)
      [] color = "Purple" -> check_purple_rule(grid, i, j)
      [] OTHER            -> FALSE

\* The dictionary lookup .get(color, lambda *_: True) applied to (grid, i, j).
check_func(color, grid, i, j) ==
    CASE color = "Red"    -> check_red_rule(grid, i, j)
      [] color = "Blue"   -> check_blue_rule(grid, i, j)
      [] color = "Green"  -> check_green_rule(grid, i, j)
      [] color = "Yellow" -> check_yellow_rule(grid, i, j)
      [] color = "Purple" -> check_purple_rule(grid, i, j)
      [] OTHER            -> TRUE

check_all_rules(grid) ==
    \A i \in Coord : \A j \in Coord : check_func(grid[i][j].color, grid, i, j)

total_checked(grid) ==
    Cardinality({p \in Coord \X Coord : grid[p[1]][p[2]].checked})

\* Mutant: the budget compared with < instead of <=.
check_total_checked_strict(grid) == total_checked(grid) < maxChecked

check_total_checked(grid) == total_checked(grid) <= maxChecked

\* Mutant: the acceptance test without the budget check.
Acceptable_no_budget(grid) == has_five_in_a_row(grid) /\ check_all_rules(grid)

\* The acceptance test shared by both generators.
Acceptable(grid) ==
    has_five_in_a_row(grid) /\ check_all_rules(grid) /\ check_total_checked(grid)

----------------------------------------------------------------------------
\* Grids of references and their contents

\* current_grid: row i, column j refers to the dictionary created for (i, j).
current_grid == [i \in Coord |-> [j \in Coord |-> <<i, j>>]]

\* [row.copy() for row in current_grid]: new row lists holding the same references.
CopyRows(refs) == [i \in Coord |-> [j \in Coord |-> refs[i][j]]]

\* What reading a grid of references gives, cell by cell, from heap h.
Deref(refs, h) == [i \in Coord |-> [j \in Coord |-> h[refs[i][j][1]][refs[i][j][2]]]]

\* The checked values of a grid.
CheckedOf(grid) == [i \in Coord |-> [j \in Coord |-> grid[i][j].checked]]

\* The live grid as backtrack reads it.
Live == Deref(current_grid, cells)

NoGrid == <<>>

\* No call of get_neighbors is in progress.
NoCall == <<>>

----------------------------------------------------------------------------
Init ==
    /\ maxChecked \in BudgetChoices
    /\ maxSolutions \in CapChoices
    /\ generateAll \in BOOLEAN
    /\ phase = "idle"
    /\ color_grid = NoGrid
    /\ cells = NoGrid
    /\ stack = <<>>
    /\ solutions = <<>>
    /\ returned = <<>>
    /\ single = NoGrid
    /\ tries = 0
    /\ accepted = <<>>
    /\ visited = {}
    /\ first_colors = NoGrid
    /\ nb = NoCall

----------------------------------------------------------------------------
\* generate_all_solutions

initial_grid(layout) ==
    [i \in Coord |-> [j \in Coord |-> [color |-> layout[i][j], checked |-> FALSE]]]

Frame(x, y, h) == [x |-> x, y |-> y, pc |-> "call", entry |-> CheckedOf(h)]

\* Lines 120, 145-150: with the layout drawn, build initial_grid and call
\* backtrack(0, 0).
StartSearch(layout) ==
    /\ color_grid' = layout
    /\ cells' = initial_grid(layout)
    /\ stack' = <<Frame(0, 0, initial_grid(layout))>>

\* Lines 119-120, 145-150: draw the layout, build initial_grid, call backtrack(0, 0).
GenerateAllStart ==
    /\ phase = "idle"
    /\ generateAll
    /\ \E layout \in Layouts : StartSearch(layout)
    /\ solutions' = <<>>
    /\ phase' = "search"
    /\ visited' = {<<0, 0>>}
    /\ UNCHANGED <<maxChecked, maxSolutions, generateAll, returned, single, tries,
                   accepted, first_colors, nb>>

Top == stack[Len(stack)]
Pop == SubSeq(stack, 1, Len(stack) - 1)
SetTop(f) == [stack EXCEPT ![Len(stack)] = f]

\* Mutant: the row never advances.
next_x_stuck(x, y) == x

next_x(x, y) == x + ((y + 1) \div N)
next_y(x, y) == (y + 1) % N

\* Mutant: no cell is recognised as Black, so every cell is branched on.
is_black_never(x, y) == FALSE

\* Line 131: color_grid[x][y] == "黑".
is_black(x, y) == color_grid[x][y] = "Black"

\* Mutants: the two values tried in the other order; the checked value twice.
branch_order_swapped == <<FALSE, TRUE>>
branch_order_repeated == <<TRUE, TRUE>>

\* Lines 136 and 140: the values a non-Black cell is given, in order.
branch_order == <<TRUE, FALSE>>

SetChecked(h, x, y, v) == [h EXCEPT ![x][y].checked = v]

\* Lines 123-126: all positions assigned; append a snapshot if accepted; return.
BacktrackTerminal ==
    /\ phase = "search"
    /\ stack # <<>>
    /\ Top.pc = "call"
    /\ Top.x = N
    /\ IF Acceptable(Live)
         THEN /\ solutions' = Append(solutions, CopyRows(current_grid))
              /\ accepted' = Append(accepted, CheckedOf(Live))
         ELSE UNCHANGED <<solutions, accepted>>
    /\ stack' = Pop
    /\ UNCHANGED <<maxChecked, maxSolutions, generateAll, phase, color_grid, cells,
                   returned, single, tries, visited, first_colors, nb>>

\* The live grid once the cell of the innermost call has been set to v.
LiveAfter(v) == Deref(current_grid, SetChecked(cells, Top.x, Top.y, v))

\* A step of backtrack that sets cell (x, y) to v, then calls backtrack on the
\* next position if descend holds.
BranchStep(v, pcAfter, descend) ==
    LET x == Top.x
        y == Top.y
        h == SetChecked(cells, x, y, v)
        me == [Top EXCEPT !.pc = pcAfter]
    IN  /\ cells' = h
        /\ stack' = IF descend
                      THEN Append(SetTop(me), Frame(next_x(x, y), next_y(x, y), h))
                      ELSE SetTop(me)
        /\ visited' = IF descend /\ next_x(x, y) < N
                        THEN visited \cup {<<next_x(x, y), next_y(x, y)>>}
                        ELSE visited

\* Lines 131-133: a Black cell is checked and the search goes on, without a test.
BacktrackBlack ==
    /\ phase = "search"
    /\ stack # <<>>
    /\ Top.pc = "call"
    /\ Top.x < N
    /\ is_black(Top.x, Top.y)
    /\ BranchStep(TRUE, "returning", TRUE)
    /\ UNCHANGED <<maxChecked, maxSolutions, generateAll, phase, color_grid,
                   solutions, returned, single, tries, accepted, first_colors, nb>>

\* Lines 136-138: try the cell checked; descend if the whole grid passes the rules.
BacktrackTryChecked ==
    /\ phase = "search"
    /\ stack # <<>>
    /\ Top.pc = "call"
    /\ Top.x < N
    /\ ~is_black(Top.x, Top.y)
    /\ BranchStep(branch_order[1], "tried_checked",
                  check_all_rules(LiveAfter(branch_order[1])))
    /\ UNCHANGED <<maxChecked, maxSolutions, generateAll, phase, color_grid,
                   solutions, returned, single, tries, accepted, first_colors, nb>>

\* Lines 140-142: try the cell unchecked; descend if the whole grid passes the rules.
BacktrackTryUnchecked ==
    /\ phase = "search"
    /\ stack # <<>>
    /\ Top.pc = "tried_checked"
    /\ BranchStep(branch_order[2], "returning",
                  check_all_rules(LiveAfter(branch_order[2])))
    /\ UNCHANGED <<maxChecked, maxSolutions, generateAll, phase, color_grid,
                   solutions, returned, single, tries, accepted, first_colors, nb>>

\* The end of the body of backtrack for a non-terminal position: return.
BacktrackReturn ==
    /\ phase = "search"
    /\ stack # <<>>
    /\ Top.pc = "returning"
    /\ stack' = Pop
    /\ UNCHANGED <<maxChecked, maxSolutions, generateAll, phase, color_grid, cells,
                   solutions, returned, single, tries, accepted, visited,
                   first_colors, nb>>

\* solutions[:MAX_SOLUTIONS]
Truncate(s, cap) == SubSeq(s, 1, IF Len(s) < cap THEN Len(s) ELSE cap)

\* Line 151: backtrack(0, 0) has returned; return the truncated list.
GenerateAllReturn ==
    /\ phase = "search"
    /\ stack = <<>>
    /\ returned' = Truncate(solutions, maxSolutions)
    /\ phase' = "done"
    /\ UNCHANGED <<maxChecked, maxSolutions, generateAll, color_grid, cells, stack,
                   solutions, single, tries, accepted, visited, first_colors, nb>>

----------------------------------------------------------------------------
\* generate_single_grid

\* Mutant: the cell dictionary built with a colour other than the drawn one.
make_cell_white(color, checked) == [color |-> "White", checked |-> checked]

\* Line 111: the dictionary appended for a cell (its x and y never change).
make_cell(color, checked) == [color |-> color, checked |-> checked]

\* Lines 105-112: the grid built from the colours and coin flips drawn.
candidate(layout, flip) ==
    [i \in Coord |-> [j \in Coord |->
        make_cell(layout[i][j],
                  layout[i][j] = "Black"
                    \/ (Index(i, j) < SingleFree /\ flip[Index(i, j)]))]]

\* The coin flips that matter: those of the cells that may be non-Black.
Flips == [0 .. (SingleFree - 1) -> BOOLEAN]

\* The grids one iteration of the loop may build: a colour per cell, Black
\* cells checked, the others checked or not.
Candidates ==
    UNION { { candidate(layout, flip) : flip \in Flips } :
            layout \in LayoutsOf(SingleFree) }

\* Lines 104-114: one iteration of the loop: build a grid, return it if accepted.
SingleIteration ==
    /\ phase \in {"idle", "single"}
    /\ ~generateAll
    /\ \E layout \in LayoutsOf(SingleFree) : \E flip \in Flips :
        LET grid == candidate(layout, flip)
        IN  /\ first_colors' = IF phase = "idle" THEN layout ELSE first_colors
            /\ IF Acceptable(grid)
                 THEN /\ single' = grid
                      /\ phase' = "singleDone"
                      /\ tries' = tries
                 ELSE /\ tries < MaxTries
                      /\ tries' = tries + 1
                      /\ phase' = "single"
                      /\ single' = single
    /\ UNCHANGED <<maxChecked, maxSolutions, generateAll, color_grid, cells, stack,
                   solutions, returned, accepted, visited, nb>>

----------------------------------------------------------------------------
Next ==
    \/ GenerateAllStart
    \/ BacktrackTerminal
    \/ BacktrackBlack
    \/ BacktrackTryChecked
    \/ BacktrackTryUnchecked
    \/ BacktrackReturn
    \/ GenerateAllReturn
    \/ SingleIteration

Spec == Init /\ [][Next]_vars

\* The steps of a running search.  The program is one thread that keeps
\* running until generate_all_solutions returns.
SearchStep ==
    \/ BacktrackTerminal
    \/ BacktrackBlack
    \/ BacktrackTryChecked
    \/ BacktrackTryUnchecked
    \/ BacktrackReturn
    \/ GenerateAllReturn

\* A run of generate_all_solutions under the shipped MAX_SOLUTIONS, which no
\* step of the search reads before the final truncation.
InitSearch == Init /\ generateAll /\ maxSolutions = MAX_SOLUTIONS

NextSearch == GenerateAllStart \/ SearchStep

FairSpec == InitSearch /\ [][NextSearch]_vars /\ WF_vars(SearchStep)

----------------------------------------------------------------------------
\* Helpers of the properties

\* The positions of a layout that are not Black.
NonBlack(layout) == {p \in Coord \X Coord : layout[p[1]][p[2]] # "Black"}

\* The complete grids over a layout in which every Black cell is checked.
CompleteGrids(layout) ==
    { [i \in Coord |-> [j \in Coord |->
          [color |-> layout[i][j],
           checked |-> layout[i][j] = "Black" \/ <<i, j>> \in S]]] :
      S \in SUBSET NonBlack(layout) }

\* The three acceptance predicates, written out.
PassesAll(grid) ==
    /\ has_five_in_a_row(grid)
    /\ check_all_rules(grid)
    /\ total_checked(grid) <= maxChecked

Range(s) == {s[k] : k \in 1 .. Len(s)}

----------------------------------------------------------------------------
\* C1: every grid of the list Mode B returns, read after the search has
\* finished, passes has_five_in_a_row, check_all_rules and check_total_checked.
C1_ReturnedGridsPass ==
    phase = "done" =>
        \A k \in 1 .. Len(returned) : PassesAll(Deref(returned[k], cells))

\* C2: when the search has finished, every complete grid with all Black cells
\* checked that passes the three acceptance predicates has been appended.
C2_AllSolutionsAccepted ==
    phase = "done" =>
        \A g \in CompleteGrids(color_grid) :
            PassesAll(g) => CheckedOf(g) \in Range(accepted)

\* C3: a snapshot in the solution collection keeps, cell by cell, the checked
\* values the live grid had when the snapshot was appended.
C3_SnapshotsKeepTheirValues ==
    \A k \in 1 .. Len(solutions) :
        CheckedOf(Deref(solutions[k], cells)) = accepted[k]

SameElsewhere(a, b, x, y) ==
    \A i \in Coord : \A j \in Coord : (i = x /\ j = y) \/ a[i][j] = b[i][j]

\* C4: a call of backtrack that is about to return leaves every cell with the
\* checked value it had when the call was entered, and the unchecked branch of
\* a cell sees every other cell as the checked branch saw it (as at entry).
C4_BacktrackRestores ==
    \A k \in 1 .. Len(stack) :
        stack[k].pc = "returning" =>
            /\ k = Len(stack) => CheckedOf(Live) = stack[k].entry
            /\ (k < Len(stack) /\ color_grid[stack[k].x][stack[k].y] # "Black") =>
                  SameElsewhere(stack[k + 1].entry, stack[k].entry,
                                stack[k].x, stack[k].y)

AtTerminal ==
    /\ phase = "search"
    /\ stack # <<>>
    /\ Top.pc = "call"
    /\ Top.x = N

AllAssigned ==
    /\ Len(stack) = N * N + 1
    /\ \A k \in 1 .. N * N :
          /\ Index(stack[k].x, stack[k].y) = k - 1
          /\ stack[k].pc # "call"

ColourPredicate(grid, i, j) ==
    CASE grid[i][j].color = "Red"    ->
             \E p \in Coord \X Coord :
                 /\ p # <<i, j>>
                 /\ p[1] - i \in {-1, 0, 1} /\ p[2] - j \in {-1, 0, 1}
                 /\ grid[p[1]][p[2]].color = "Blue" /\ grid[p[1]][p[2]].checked
      [] grid[i][j].color = "Blue"   ->
             Cardinality({p \in Coord \X Coord :
                 /\ p # <<i, j>>
                 /\ p[1] - i \in {-1, 0, 1} /\ p[2] - j \in {-1, 0, 1}
                 /\ grid[p[1]][p[2]].color = "Black" /\ grid[p[1]][p[2]].checked}) <= 2
      [] grid[i][j].color = "Black"  -> grid[i][j].checked
      [] grid[i][j].color = "Green"  ->
             Cardinality({c \in Coord : grid[i][c].checked})
               = Cardinality({r \in Coord : grid[r][j].checked})
      [] grid[i][j].color = "Yellow" ->
             Cardinality({d \in Coord : grid[d][d].checked})
               = Cardinality({d \in Coord : grid[d][N - 1 - d].checked})
      [] grid[i][j].color = "Purple" ->
             Cardinality({p \in Coord \X Coord :
                 /\ p # <<i, j>>
                 /\ p[1] - i \in {-1, 0, 1} /\ p[2] - j \in {-1, 0, 1}
                 /\ grid[p[1]][p[2]].checked}) % 2 = 1
      [] grid[i][j].color = "White"  -> TRUE

RuleValid(grid) == \A i \in Coord : \A j \in Coord : ColourPredicate(grid, i, j)

\* C6: check_all_rules is true of a grid exactly when every cell satisfies the
\* predicate of its colour, a Black cell's predicate being that it is checked.
C6_CheckAllRulesIsRuleTable ==
    phase = "search" => (check_all_rules(Live) <=> RuleValid(Live))

\* C7: at every append of Mode B the live grid has every Black cell checked,
\* and the grid Mode A returns has every Black cell checked.
C7_BlackCheckedInSolutions ==
    /\ \A k \in 1 .. Len(accepted) :
          \A i \in Coord : \A j \in Coord :
              color_grid[i][j] = "Black" => accepted[k][i][j]
    /\ single # NoGrid =>
          \A i \in Coord : \A j \in Coord :
              single[i][j].color = "Black" => single[i][j].checked

C7_Witness ==
    /\ phase = "search"
    /\ Len(accepted) = 2
    /\ \E p \in NonBlack(color_grid) : ~accepted[2][p[1]][p[2]]
    /\ \E i \in Coord : \E j \in Coord : color_grid[i][j] = "Black"

\* Mode A has returned a grid that holds Black cells.
C7_SingleReturned ==
    /\ phase = "singleDone"
    /\ \E i \in Coord : \E j \in Coord : single[i][j].color = "Black"

Min(a, b) == IF a < b THEN a ELSE b

\* C8: the returned list has min(n, MAX_SOLUTIONS) elements, n the number of
\* grids accepted by the whole search, and its k-th element is the k-th grid
\* accepted.
C8_ReturnedIsAcceptedPrefix ==
    phase = "done" =>
        /\ Len(returned) = Min(Len(accepted), maxSolutions)
        /\ \A k \in 1 .. Len(returned) :
              CheckedOf(Deref(returned[k], cells)) = accepted[k]

\* The part of C8 that the shared cell dictionaries leave intact: the length of
\* the returned list, and that the search goes on after the cap is reached.
C8_LengthOnly ==
    phase = "done" =>
        /\ Len(returned) = Min(Len(accepted), maxSolutions)
        /\ returned = SubSeq(solutions, 1, Len(returned))

C8_SearchGoesOnPastCap ==
    phase = "search" /\ Len(solutions) > maxSolutions

StackOrdered ==
    /\ Len(stack) <= N * N + 1
    /\ \A k \in 1 .. Len(stack) : Index(stack[k].x, stack[k].y) = k - 1

\* C9: the stack of backtrack holds at most N*N + 1 calls, the k-th of them at
\* row-major position k - 1, and a search that has started finishes; it may
\* finish with an empty list.
C9_ModeBTerminates ==
    /\ [](phase = "search" => StackOrdered)
    /\ (phase = "search") ~> (phase = "done")

C9_Witness ==
    /\ phase = "done"
    /\ returned = <<>>
    /\ accepted = <<>>

AllBlack == [i \in Coord |-> [j \in Coord |-> "Black"]]

\* C10: for the all-Black layout Mode B returns the empty list when MAX_CHECKED
\* is below N*N, and exactly one grid, with every cell checked, otherwise.
C10_AllBlackLayout ==
    (phase = "done" /\ color_grid = AllBlack) =>
        IF maxChecked < N * N
          THEN returned = <<>>
          ELSE /\ Len(returned) = 1
               /\ \A i \in Coord : \A j \in Coord :
                     Deref(returned[1], cells)[i][j].checked

C10_Witness ==
    /\ phase = "done"
    /\ color_grid = AllBlack
    /\ maxChecked = N * N
    /\ Len(returned) = 1

----------------------------------------------------------------------------
\* get_neighbors, call by call: the two nested loops taken one pair (i, j) at a
\* time, in the order of Block.

\* The state outside a call of the generators.
InitNeighbors ==
    /\ maxChecked = MAX_CHECKED
    /\ maxSolutions = MAX_SOLUTIONS
    /\ generateAll = TRUE
    /\ phase = "idle"
    /\ color_grid = NoGrid
    /\ cells = NoGrid
    /\ stack = <<>>
    /\ solutions = <<>>
    /\ returned = <<>>
    /\ single = NoGrid
    /\ tries = 0
    /\ accepted = <<>>
    /\ visited = {}
    /\ first_colors = NoGrid
    /\ \E x \in Coord : \E y \in Coord :
          nb = [x |-> x, y |-> y, k |-> 1, neighbors |-> <<>>, done |-> FALSE]

\* The pair (i, j) the loops are at.
NbPair == Block(nb.x, nb.y)[nb.k]

NbUnchanged ==
    UNCHANGED <<maxChecked, maxSolutions, generateAll, phase, color_grid, cells,
                stack, solutions, returned, single, tries, accepted, visited,
                first_colors>>

\* Lines 34-35: the cell itself is skipped.
NeighborsSkipSelf ==
    /\ nb # NoCall
    /\ nb.k <= 9
    /\ NbPair = <<nb.x, nb.y>>
    /\ nb' = [nb EXCEPT !.k = nb.k + 1]
    /\ NbUnchanged

\* Lines 36-37: a pair inside the grid is appended.
NeighborsAppend ==
    /\ nb # NoCall
    /\ nb.k <= 9
    /\ NbPair # <<nb.x, nb.y>>
    /\ in_grid(NbPair[1], NbPair[2])
    /\ nb' = [nb EXCEPT !.k = nb.k + 1, !.neighbors = Append(nb.neighbors, NbPair)]
    /\ NbUnchanged

\* Line 36: a pair outside the grid is passed over.
NeighborsSkipOutside ==
    /\ nb # NoCall
    /\ nb.k <= 9
    /\ NbPair # <<nb.x, nb.y>>
    /\ ~in_grid(NbPair[1], NbPair[2])
    /\ nb' = [nb EXCEPT !.k = nb.k + 1]
    /\ NbUnchanged

\* Line 38: the loops are over; the list is returned.
NeighborsReturn ==
    /\ nb # NoCall
    /\ nb.k = 10
    /\ ~nb.done
    /\ nb' = [nb EXCEPT !.done = TRUE]
    /\ NbUnchanged

NextNeighbors ==
    \/ NeighborsSkipSelf
    \/ NeighborsAppend
    \/ NeighborsSkipOutside
    \/ NeighborsReturn

NeighborSpec == InitNeighbors /\ [][NextNeighbors]_vars

\* The positions of the grid next to (x, y), (x, y) left out.
Adjacent(x, y) ==
    {p \in Coord \X Coord :
        /\ p # <<x, y>>
        /\ p[1] - x \in {-1, 0, 1}
        /\ p[2] - y \in {-1, 0, 1}}

\* How many of the two coordinates lie on the border of the grid.
OnBorder(x, y) ==
    (IF x \in {0, N - 1} THEN 1 ELSE 0) + (IF y \in {0, N - 1} THEN 1 ELSE 0)

\* C12: the list get_neighbors(x, y) returns holds exactly the positions of
\* the grid that differ from (x, y) by at most 1 in each coordinate, (x, y)
\* left out, each once: 3 of them for a corner, 5 for another border cell,
\* 8 for an interior cell.  The operator the rules use gives the same list.
C12_NeighborsExact ==
    (nb # NoCall /\ nb.done) =>
        /\ Range(nb.neighbors) = Adjacent(nb.x, nb.y)
        /\ Cardinality(Range(nb.neighbors)) = Len(nb.neighbors)
        /\ Len(nb.neighbors) = CASE OnBorder(nb.x, nb.y) = 2 -> 3
                                 [] OnBorder(nb.x, nb.y) = 1 -> 5
                                 [] OnBorder(nb.x, nb.y) = 0 -> 8
        /\ nb.neighbors = get_neighbors(nb.x, nb.y)

C12_Witness ==
    /\ nb # NoCall
    /\ nb.done
    /\ nb.x = 0
    /\ nb.y = N - 1
    /\ nb.neighbors = <<<<0, 3>>, <<1, 3>>, <<1, 4>>>>

----------------------------------------------------------------------------
\* generate_all_solutions on the all-White layout

AllWhite == [i \in Coord |-> [j \in Coord |-> "White"]]

\* random.choice draws White for every cell.
GenerateAllStartWhite ==
    /\ phase = "idle"
    /\ generateAll
    /\ StartSearch(AllWhite)
    /\ solutions' = <<>>
    /\ phase' = "search"
    /\ visited' = {<<0, 0>>}
    /\ UNCHANGED <<maxChecked, maxSolutions, generateAll, returned, single, tries,
                   accepted, first_colors, nb>>

\* The unchecked branch, taken inside the subtree that is followed.
WhiteTryUnchecked ==
    /\ Len(stack) > N * N - WhiteDepth
    /\ BacktrackTryUnchecked

NextWhite ==
    \/ GenerateAllStartWhite
    \/ BacktrackTerminal
    \/ BacktrackTryChecked
    \/ WhiteTryUnchecked
    \/ BacktrackReturn

WhiteSpec == InitSearch /\ [][NextWhite]_vars

\* The subtree of the last WhiteDepth cells has been searched.
WhiteSubtreeDone ==
    /\ phase = "search"
    /\ Len(stack) = N * N - WhiteDepth
    /\ Top.pc = "tried_checked"

\* The complete grids of that subtree.
WhiteSubtreeGrids ==
    { [i \in Coord |-> [j \in Coord |->
          [color |-> "White",
           checked |-> Index(i, j) < N * N - WhiteDepth \/ <<i, j>> \in S]]] :
      S \in SUBSET {p \in Coord \X Coord : Index(p[1], p[2]) >= N * N - WhiteDepth} }

HasLine(grid) ==
    \/ \E i \in Coord : \A j \in Coord : grid[i][j].checked
    \/ \E j \in Coord : \A i \in Coord : grid[i][j].checked
    \/ \A i \in Coord : grid[i][i].checked
    \/ \A i \in Coord : grid[i][N - 1 - i].checked

WhiteGrid(a) == [i \in Coord |-> [j \in Coord |-> [color |-> "White", checked |-> a[i][j]]]]

----------------------------------------------------------------------------
\* C14: at every pruning check, made by a branch right after it has set the
\* cell at row-major position p, every cell at a position greater than p is
\* unchecked.
C14_UndecidedCellsUnchecked ==
    [][(BacktrackTryChecked \/ BacktrackTryUnchecked) =>
          \A i \in Coord : \A j \in Coord :
              Index(i, j) > Index(Top.x, Top.y) => ~cells'[i][j].checked]_vars

\* The row-major positions at which two checked-assignments differ.
DiffAt(a, b) == {Index(i, j) : <<i, j>> \in {p \in Coord \X Coord : a[p[1]][p[2]] # b[p[1]][p[2]]}}

\* The least element of a non-empty set of numbers.
Least(S) == CHOOSE m \in S : \A n \in S : m <= n

ValueAt(a, q) == a[q \div N][q % N]

\* C15: a non-Black cell is first set checked, from the entry of the call, then
\* unchecked; each assignment is followed by a call on the next position
\* exactly when check_all_rules holds of the grid just assigned; and of any two
\* accepted grids the earlier is checked at the first position where they differ.
C15_CheckedBranchFirst ==
    /\ [](\A k \in 1 .. Len(accepted) : \A l \in 1 .. Len(accepted) :
            (k < l /\ DiffAt(accepted[k], accepted[l]) # {}) =>
                ValueAt(accepted[k], Least(DiffAt(accepted[k], accepted[l]))))
    /\ [][(BacktrackTryChecked =>
              /\ Top.pc = "call"
              /\ cells'[Top.x][Top.y].checked)
          /\ (BacktrackTryUnchecked =>
              /\ Top.pc = "tried_checked"
              /\ ~cells'[Top.x][Top.y].checked)
          /\ ((BacktrackTryChecked \/ BacktrackTryUnchecked) =>
              (Len(stack') = Len(stack) + 1
                 <=> check_all_rules(Deref(current_grid, cells'))))]_vars

C15_Witness ==
    /\ Len(accepted) >= 2
    /\ DiffAt(accepted[1], accepted[2]) # {}
    /\ Len(stack) > 1

\* The colours of a grid.
ColorsOf(grid) == [i \in Coord |-> [j \in Coord |-> grid[i][j].color]]

C17_NoDuplicateAcceptance ==
    \A k \in 1 .. Len(accepted) : \A l \in 1 .. Len(accepted) :
        k # l => accepted[k] # accepted[l]

C17_Witness ==
    /\ phase = "done"
    /\ Len(accepted) >= 3

\* C18: when backtrack is about to return from position p every non-Black cell
\* at a position >= p is unchecked; when the search has finished every
\* non-Black cell is unchecked and every Black cell a call was made on is
\* checked.
C18_FinalLiveGrid ==
    /\ (phase = "search" /\ stack # <<>> /\ Top.pc = "returning") =>
          \A i \in Coord : \A j \in Coord :
              (color_grid[i][j] # "Black" /\ Index(i, j) >= Index(Top.x, Top.y))
                  => ~cells[i][j].checked
    /\ phase = "done" =>
          \A i \in Coord : \A j \in Coord :
              IF color_grid[i][j] = "Black"
                THEN <<i, j>> \in visited => cells[i][j].checked
                ELSE ~cells[i][j].checked

C18_Witness ==
    /\ phase = "done"
    /\ \E p \in visited : color_grid[p[1]][p[2]] = "Black"
    /\ \E p \in (Coord \X Coord) \ visited : color_grid[p[1]][p[2]] = "Black"
    /\ \E p \in visited : color_grid[p[1]][p[2]] # "Black"

====
